---- MODULE Spec2Model ----
(***************************************************************************)
(* The /chat turn of the SearchLift360 conversational backend:             *)
(* chat_with_agent (backend/main.py) and generate_response_with_gemini,    *)
(* execute_local_tool (backend/chat_handler.py).                           *)
(*                                                                         *)
(* One turn is a sequential chain of external calls.  The turn stops at    *)
(* two kinds of places: inside chat.send_message (lines 43, 84, 96),       *)
(* waiting for the LLM endpoint, and inside execute_local_tool (line 68),  *)
(* waiting for the local HTTP service.  Every action below is one          *)
(* completion of such a call together with all the code the handler runs   *)
(* until it reaches the next call or returns.                              *)
(***************************************************************************)
EXTENDS Naturals, Sequences, FiniteSets, TLC

VARIABLES
    pc,                \* "idle" | "awaitModel" | "awaitTool" | "done"
    request,           \* the ChatRequest body: [prompt, history]
    site,              \* which chat.send_message call is waiting: "prompt" (l.43), "result" (l.84), "error" (l.96)
    response_message,  \* response.candidates[0].content.parts of the last reply
    tool_name,         \* function_call.name of the tool being handled
    ret,               \* outcome of generate_response_with_gemini
    http,              \* the HTTP answer of /chat
    sent,              \* every message handed to chat.send_message, in order
    calls,             \* every dispatch to execute_local_tool, in order, with its outcome
    mark,              \* Len(sent) when response_message was received
    observe,           \* whether sent and calls are kept (they are not program state)
    turns,             \* two turns served by one process: turn id -> the state of its handler
    thread             \* the turn whose synchronous call holds the event loop thread, 0 when it is free

vars == <<pc, request, site, response_message, tool_name, ret, http, sent, calls, mark, observe, turns, thread>>

----------------------------------------------------------------------------
(* Bounds of the exploration *)

\* Tool round-trips the LLM may ask for in one turn while the logs are kept
\* (the code itself has no cap: see LiveSpec for the turn without one).
MaxRounds == 2

\* Parts in one model reply.
MaxParts == 2

\* Tool round-trips per turn when two turns are served side by side (PairSpec).
MaxPairRounds == 1

----------------------------------------------------------------------------
(* Program constants *)

Fallback == "I have processed your request. Is there anything else I can help with?"

Apology == "I'm sorry, but I encountered an error while trying to process your request. Please try again later."

EmptyPromptDetail == "Prompt cannot be empty."

KnownTools ==
    {"get_categories_tool", "get_products_tool", "search_products_tool", "search_hotels_tool"}

----------------------------------------------------------------------------
(* Inputs *)

Prompts == {"", "Show me accessories"}

\* request.history: accepted by ChatRequest, never read by the handler.
Histories == {<<>>, <<"earlier turn">>}

\* Tool names the LLM may put in a function_call: a declared tool and a name
\* execute_local_tool does not know.
RequestedTools == {"search_products_tool", "book_flight_tool"}

AnswerTexts == {"I found a Belt"}

\* A part of a reply: a protobuf oneof, either text or a function_call.  An unset
\* text reads as "" and an unset function_call is falsy (name "").
TextPart(s) == [function_call |-> "", text |-> s]

CallPart(n) == [function_call |-> n, text |-> ""]

Parts == {TextPart(s) : s \in AnswerTexts \cup {""}} \cup {CallPart(n) : n \in RequestedTools}

RECURSIVE SeqsUpTo(_, _)
SeqsUpTo(S, n) ==
    IF n = 0 THEN {<<>>}
    ELSE LET shorter == SeqsUpTo(S, n - 1)
         IN  shorter \cup {Append(s, x) : s \in {t \in shorter : Len(t) = n - 1}, x \in S}

Replies == SeqsUpTo(Parts, MaxParts)

\* How a call of the LLM endpoint can fail: chat.send_message raises (endpoint
\* unreachable), or the reply has no candidate and response.candidates[0]
\* raises IndexError.  Both are exceptions raised at the same place of the
\* handler; one message stands for them.
LLMErrors == {"503 model endpoint unreachable"}

\* JSON values, all of one record shape.
Array(xs) == [t |-> "array", key |-> "", items |-> xs, str |-> ""]

Object(k, xs, s) == [t |-> "object", key |-> k, items |-> xs, str |-> s]

Scalar(s) == [t |-> "scalar", key |-> "", items |-> <<>>, str |-> s]

Null == [t |-> "null", key |-> "", items |-> <<>>, str |-> ""]

\* What response.json() of the local service can be.
JsonResults ==
    {Array(<<>>), Array(<<"Belt", "Hat">>), Object("hotels", <<"Taj">>, ""), Scalar("7")}

HttpErrors == {"All connection attempts failed"}

----------------------------------------------------------------------------
(* Pure parts of the handlers *)

\* Variant: the emptiness test is missing.
PromptIsEmpty_Never(p) == FALSE

\* main.py 194: `if not request.prompt`.
PromptIsEmpty(p) == p = ""

\* Variant: the loop condition stops at `response_message.parts`.
HasToolCall_AnyParts(message) == message # <<>>

\* chat_handler.py 47-52: the loop condition.  Only parts[0] is looked at.
HasToolCall(message) ==
    /\ message # <<>>
    /\ message[1].function_call # ""

\* Variant: the text is read from the last part instead of parts[0].
FinalText_LastPart(message) ==
    IF message # <<>> /\ message[Len(message)].text # ""
    THEN message[Len(message)].text
    ELSE Fallback

\* Variant: the test for an empty text (line 106) is missing.
FinalText_NoEmptyTest(message) ==
    IF message # <<>>
    THEN message[1].text
    ELSE Fallback

\* chat_handler.py 102-111: the text of parts[0], or the fixed fallback.
FinalText(message) ==
    IF message # <<>> /\ message[1].text # ""
    THEN message[1].text
    ELSE Fallback

\* Variant: the list is passed on as it is (the code before the fix of line 70).
WrapList_Bare(tool_response_data) == tool_response_data

\* chat_handler.py 71-72: a list result is wrapped, anything else is passed on.
WrapList(tool_response_data) ==
    IF tool_response_data.t = "array"
    THEN Object("results", tool_response_data.items, "")
    ELSE tool_response_data

\* Variant: the exception's message is left out of the payload.
ErrorResponse_NoMessage(e) == Object("error", <<>>, "Failed to execute tool")

\* chat_handler.py 92-95: the payload built from the caught exception.
ErrorResponse(e) == Object("error", <<>>, "Failed to execute tool: " \o e)

\* chat_handler.py 43: the first message of the chat session.
PromptMessage(p) ==
    [kind |-> "prompt", name |-> "", response |-> Scalar(p), call |-> 0, status |-> "pending"]

\* Variant: the response does not carry the requested tool's name.
FunctionResponse_Unnamed(name, response, call) ==
    [kind |-> "function_response", name |-> "tool", response |-> response,
     call |-> call, status |-> "pending"]

\* chat_handler.py 76-79, 85: the Part(function_response=FunctionResponse(name, response)).
\* `call` is the position of the dispatch it answers and `status` the outcome of
\* the send_message call that carried it; both are bookkeeping of the log.
FunctionResponse(name, response, call) ==
    [kind |-> "function_response", name |-> name, response |-> response,
     call |-> call, status |-> "pending"]

\* chat_handler.py 85: FunctionResponse.response is a protobuf Struct.  The code
\* hands it whatever the tool returned; for a value that is not a mapping the
\* client library either builds the message all the same or raises, and the
\* source does not decide which: both outcomes are kept.
StructError == "response is not a mapping"

Constructs(response) ==
    IF response.t = "object" THEN {TRUE} ELSE {TRUE, FALSE}

\* chat_handler.py 151-178: unknown names raise ValueError; a known name is a
\* GET on the local service, which raises (connection, raise_for_status) or
\* returns response.json().
execute_local_tool(name) ==
    IF name \in KnownTools
    THEN {[ok |-> TRUE, value |-> v, msg |-> ""] : v \in JsonResults}
         \cup {[ok |-> FALSE, value |-> Null, msg |-> m] : m \in HttpErrors}
    ELSE {[ok |-> FALSE, value |-> Null, msg |-> "Unknown tool: " \o name]}

\* chat_handler.py 62-88: the send_message of line 84 is inside the inner try.
InInnerTry(s) == s = "result"

Return(text) == [tag |-> "return", text |-> text]

\* Variant: the outermost handler lets the exception through.
OuterExcept_Reraise(e) == [tag |-> "raise", text |-> e]

\* chat_handler.py 113-116: the outermost handler.
OuterExcept(e) == Return(Apology)

\* main.py 268-276: the answer of /chat for an outcome of the generator.
Respond(r) ==
    IF r.tag = "return"
    THEN [status |-> 200, body |-> r.text]
    ELSE [status |-> 500, body |-> "An error occurred while processing your request: " \o r.text]

NoRet == [tag |-> "none", text |-> ""]

NoHttp == [status |-> 0, body |-> ""]

\* Log bookkeeping, done only while the logs are kept.
Record(log, e) == IF observe THEN Append(log, e) ELSE log

Settled(log, status) ==
    IF observe THEN [log EXCEPT ![Len(log)].status = status] ELSE log

Completed(log, status, value, msg) ==
    IF observe
    THEN [log EXCEPT ![Len(log)].status = status,
                     ![Len(log)].value = value,
                     ![Len(log)].msg = msg]
    ELSE log

----------------------------------------------------------------------------
(* Two turns in one process: state of one handler *)

Turns == {1, 2}

Other(t) == CHOOSE u \in Turns : u # t

\* Variant: the session is seeded with the request's history field.
StartChat_WithHistory(req, sessions) ==
    [i \in 1..Len(req.history) |->
        [kind |-> "history", name |-> "", response |-> Scalar(req.history[i]),
         call |-> 0, status |-> "pending"]]

\* chat_handler.py 40: model.start_chat(...) makes a new session for the turn.
\* Its history is empty whatever the request's history field holds and
\* whatever the sessions of other turns hold; `model` (l.21-24) is only read.
StartChat(req, sessions) == <<>>

IdleTurn ==
    [pc |-> "idle", request |-> [prompt |-> "", history |-> <<>>], site |-> "none",
     response_message |-> <<>>, tool_name |-> "", ret |-> NoRet, http |-> NoHttp,
     sent |-> <<>>, calls |-> <<>>, answers |-> <<>>]

\* No /chat request has arrived and the event loop is free.
ProcessInit ==
    /\ turns = [t \in Turns |-> IdleTurn]
    /\ thread = 0

----------------------------------------------------------------------------
(* The state machine *)

Init ==
    /\ ProcessInit
    /\ pc = "idle"
    /\ request = [prompt |-> "", history |-> <<>>]
    /\ site = "none"
    /\ response_message = <<>>
    /\ tool_name = ""
    /\ ret = NoRet
    /\ http = NoHttp
    /\ sent = <<>>
    /\ calls = <<>>
    /\ mark = 0
    /\ observe = TRUE

\* main.py 189-196 and chat_handler.py 38-43: POST /chat arrives.  An empty
\* prompt is answered 400; otherwise the chat is started and the prompt sent.
ChatRequest ==
    /\ pc = "idle"
    /\ \E p \in Prompts, h \in Histories :
        /\ request' = [prompt |-> p, history |-> h]
        /\ IF PromptIsEmpty(p)
           THEN /\ pc' = "done"
                /\ http' = [status |-> 400, body |-> EmptyPromptDetail]
                /\ UNCHANGED <<site, sent>>
           ELSE /\ pc' = "awaitModel"
                /\ site' = "prompt"
                /\ sent' = Record(sent, PromptMessage(p))
                /\ UNCHANGED http
    /\ UNCHANGED <<response_message, tool_name, ret, calls, mark, observe, turns, thread>>

\* chat_handler.py 44-68 / 87 / 99 and 101-111: send_message returns a reply.
\* The loop condition is evaluated; a tool request is dispatched, anything
\* else ends the turn with the final text.
ReplyStep(r) ==
    /\ pc = "awaitModel"
    /\ response_message' = r
    /\ mark' = Len(sent)
    /\ sent' = Settled(sent, "replied")
    /\ site' = "none"
    /\ IF HasToolCall(r)
       THEN /\ tool_name' = r[1].function_call
            /\ calls' = Record(calls,
                               [name |-> r[1].function_call, status |-> "pending",
                                value |-> Null, msg |-> ""])
            /\ pc' = "awaitTool"
            /\ UNCHANGED <<ret, http>>
       ELSE /\ ret' = Return(FinalText(r))
            /\ http' = Respond(Return(FinalText(r)))
            /\ pc' = "done"
            /\ UNCHANGED <<tool_name, calls>>
    /\ UNCHANGED <<request, observe, turns, thread>>

ModelReplies ==
    \E r \in Replies :
        /\ (observe /\ HasToolCall(r)) => Len(calls) < MaxRounds
        /\ ReplyStep(r)

\* chat_handler.py 43-44, 84-99, 113-116: send_message (or candidates[0])
\* raises.  At line 84 the inner handler catches it and sends an error
\* response; at lines 43 and 96 the outermost handler ends the turn.
ModelFails ==
    /\ pc = "awaitModel"
    /\ \E e \in LLMErrors :
        IF InInnerTry(site)
        THEN /\ sent' = Record(Settled(sent, "failed"),
                               FunctionResponse(tool_name, ErrorResponse(e), Len(calls)))
             /\ site' = "error"
             /\ UNCHANGED <<pc, ret, http>>
        ELSE /\ sent' = Settled(sent, "failed")
             /\ site' = "none"
             /\ ret' = OuterExcept(e)
             /\ http' = Respond(OuterExcept(e))
             /\ pc' = "done"
    /\ UNCHANGED <<request, response_message, tool_name, calls, mark, observe, turns, thread>>

\* chat_handler.py 68-86: execute_local_tool returns.  A list is wrapped, the
\* FunctionResponse is built and sent; if building it raises, the inner
\* handler sends an error response instead.
ToolReturns ==
    /\ pc = "awaitTool"
    /\ \E o \in execute_local_tool(tool_name) :
        /\ o.ok
        /\ calls' = Completed(calls, "returned", o.value, "")
        /\ \E built \in Constructs(WrapList(o.value)) :
            IF built
            THEN /\ sent' = Record(sent,
                                   FunctionResponse(tool_name, WrapList(o.value), Len(calls)))
                 /\ site' = "result"
            ELSE /\ sent' = Record(sent,
                                   FunctionResponse(tool_name, ErrorResponse(StructError), Len(calls)))
                 /\ site' = "error"
    /\ pc' = "awaitModel"
    /\ UNCHANGED <<request, response_message, tool_name, ret, http, mark, observe, turns, thread>>

\* chat_handler.py 68, 89-98: execute_local_tool raises.  The inner handler
\* sends {error: ...} for the same tool name.
ToolRaises ==
    /\ pc = "awaitTool"
    /\ \E o \in execute_local_tool(tool_name) :
        /\ ~o.ok
        /\ calls' = Completed(calls, "raised", Null, o.msg)
        /\ sent' = Record(sent,
                          FunctionResponse(tool_name, ErrorResponse(o.msg), Len(calls)))
    /\ site' = "error"
    /\ pc' = "awaitModel"
    /\ UNCHANGED <<request, response_message, tool_name, ret, http, mark, observe, turns, thread>>

Next ==
    \/ ChatRequest
    \/ ModelReplies
    \/ ModelFails
    \/ ToolReturns
    \/ ToolRaises

Spec == Init /\ [][Next]_vars

\* The same turn with the logs dropped: nothing bounds the number of tool
\* requests, and a turn that never ends is a loop of finitely many states.
\* Every call of the LLM endpoint and every tool dispatch returns or raises,
\* and the handler then runs on: weak fairness of the turn's next step.
LiveInit ==
    /\ ProcessInit
    /\ pc = "idle"
    /\ request = [prompt |-> "", history |-> <<>>]
    /\ site = "none"
    /\ response_message = <<>>
    /\ tool_name = ""
    /\ ret = NoRet
    /\ http = NoHttp
    /\ sent = <<>>
    /\ calls = <<>>
    /\ mark = 0
    /\ observe = FALSE

LiveSpec == LiveInit /\ [][Next]_vars /\ WF_vars(Next)

TypeOK ==
    /\ pc \in {"idle", "awaitModel", "awaitTool", "done"}
    /\ site \in {"none", "prompt", "result", "error"}
    /\ Len(calls) <= MaxRounds
    /\ Len(sent) <= 2 * MaxRounds + 1
    /\ (pc = "awaitModel") = (site # "none")

----------------------------------------------------------------------------
(* Two turns served by one process.

   main.py 189-276 and chat_handler.py 26-116 are coroutines of one event
   loop.  chat.send_message (l.43, 84, 96) is the synchronous call of the
   library: it does not yield, so while a turn waits in it the thread runs no
   other coroutine.  execute_local_tool (l.162-178) awaits httpx: the thread
   is free while the tool runs.

   The LLM endpoint and the tool executor are the same for both turns: what
   they answer to the k-th call of one turn, they answer to the k-th call of
   the other (answers). *)

PairReplies == {r \in Replies : Len(r) <= 1}

ReplyAnswer(r) ==
    [kind |-> "reply", reply |-> r, ok |-> TRUE, value |-> Null, msg |-> "", built |-> TRUE]

RaiseAnswer(e) ==
    [kind |-> "llm_raises", reply |-> <<>>, ok |-> FALSE, value |-> Null, msg |-> e, built |-> TRUE]

ToolAnswer(o, built) ==
    [kind |-> "tool", reply |-> <<>>, ok |-> o.ok, value |-> o.value, msg |-> o.msg, built |-> built]

\* The environment answers the next call of turn t as it answered the same
\* call of the other turn, if that one is already there.
Agree(t, a) ==
    LET k == Len(turns[t].answers) + 1
    IN  Len(turns[Other(t)].answers) >= k => turns[Other(t)].answers[k] = a

\* The sessions of the other turns of the process.
Sessions(t) == [u \in Turns \ {t} |-> turns[u].sent]

Leave == UNCHANGED <<pc, request, site, response_message, tool_name, ret, http, sent, calls, mark, observe>>

\* main.py 189-199, chat_handler.py 38-43: the event loop starts the handler
\* of a POST /chat; it runs up to the first send_message and stays in it.
PairRequest(t) ==
    /\ thread = 0
    /\ turns[t].pc = "idle"
    /\ \E p \in Prompts, h \in Histories :
        LET req == [prompt |-> p, history |-> h]
        IN  IF PromptIsEmpty(p)
            THEN /\ turns' = [turns EXCEPT ![t].request = req,
                                           ![t].pc = "done",
                                           ![t].http = [status |-> 400, body |-> EmptyPromptDetail]]
                 /\ UNCHANGED thread
            ELSE /\ turns' = [turns EXCEPT ![t].request = req,
                                           ![t].pc = "awaitModel",
                                           ![t].site = "prompt",
                                           ![t].sent = Append(StartChat(req, Sessions(t)),
                                                              PromptMessage(p))]
                 /\ thread' = t
    /\ Leave

\* chat_handler.py 44-68 / 87 / 99 and 101-111: send_message returns to the
\* turn that holds the thread.  A tool request is dispatched and awaited,
\* which frees the thread; anything else ends the turn.
PairModelReplies(t) ==
    /\ thread = t
    /\ turns[t].pc = "awaitModel"
    /\ \E r \in PairReplies :
        /\ HasToolCall(r) => Len(turns[t].calls) < MaxPairRounds
        /\ Agree(t, ReplyAnswer(r))
        /\ IF HasToolCall(r)
           THEN turns' = [turns EXCEPT ![t].response_message = r,
                                       ![t].site = "none",
                                       ![t].tool_name = r[1].function_call,
                                       ![t].calls = Append(@, r[1].function_call),
                                       ![t].answers = Append(@, ReplyAnswer(r)),
                                       ![t].pc = "awaitTool"]
           ELSE turns' = [turns EXCEPT ![t].response_message = r,
                                       ![t].site = "none",
                                       ![t].ret = Return(FinalText(r)),
                                       ![t].http = Respond(Return(FinalText(r))),
                                       ![t].answers = Append(@, ReplyAnswer(r)),
                                       ![t].pc = "done"]
    /\ thread' = 0
    /\ Leave

\* chat_handler.py 43-44, 84-99, 113-116: send_message raises in the turn
\* that holds the thread.  Inside the inner try the handler sends an error
\* response at once (the thread is kept); otherwise the turn ends.
PairModelFails(t) ==
    /\ thread = t
    /\ turns[t].pc = "awaitModel"
    /\ \E e \in LLMErrors :
        /\ Agree(t, RaiseAnswer(e))
        /\ IF InInnerTry(turns[t].site)
           THEN /\ turns' = [turns EXCEPT
                                ![t].sent = Append(@, FunctionResponse(turns[t].tool_name,
                                                                       ErrorResponse(e),
                                                                       Len(turns[t].calls))),
                                ![t].site = "error",
                                ![t].answers = Append(@, RaiseAnswer(e))]
                /\ UNCHANGED thread
           ELSE /\ turns' = [turns EXCEPT ![t].site = "none",
                                          ![t].ret = OuterExcept(e),
                                          ![t].http = Respond(OuterExcept(e)),
                                          ![t].answers = Append(@, RaiseAnswer(e)),
                                          ![t].pc = "done"]
                /\ thread' = 0
    /\ Leave

\* chat_handler.py 68-86 and 89-98: the awaited execute_local_tool returns or
\* raises.  The coroutine is resumed when the thread is free, builds the
\* response (or the error response) and enters send_message.
PairToolCompletes(t) ==
    /\ thread = 0
    /\ turns[t].pc = "awaitTool"
    /\ \E o \in execute_local_tool(turns[t].tool_name) :
        \E built \in (IF o.ok THEN Constructs(WrapList(o.value)) ELSE {TRUE}) :
            LET payload == IF ~o.ok THEN ErrorResponse(o.msg)
                           ELSE IF built THEN WrapList(o.value)
                           ELSE ErrorResponse(StructError)
            IN  /\ Agree(t, ToolAnswer(o, built))
                /\ turns' = [turns EXCEPT
                                ![t].sent = Append(@, FunctionResponse(turns[t].tool_name,
                                                                       payload,
                                                                       Len(turns[t].calls))),
                                ![t].site = IF o.ok /\ built THEN "result" ELSE "error",
                                ![t].answers = Append(@, ToolAnswer(o, built)),
                                ![t].pc = "awaitModel"]
    /\ thread' = t
    /\ Leave

\* The next step of turn t.
TurnStep(t) ==
    \/ PairRequest(t)
    \/ PairModelReplies(t)
    \/ PairModelFails(t)
    \/ PairToolCompletes(t)

PairNext == \E t \in Turns : TurnStep(t)

PairSpec == Init /\ [][PairNext]_vars

PairTypeOK ==
    /\ thread \in {0} \cup Turns
    /\ \A t \in Turns :
        /\ turns[t].pc \in {"idle", "awaitModel", "awaitTool", "done"}
        /\ (thread = t) = (turns[t].pc = "awaitModel")
        /\ Len(turns[t].calls) <= MaxPairRounds

----------------------------------------------------------------------------
(* Properties *)

Last(log) == log[Len(log)]

IsCallPart(part) == part.function_call # ""

\* The first message sent for dispatch i.
FirstAnswer(i) ==
    CHOOSE j \in 1..Len(sent) :
        /\ sent[j].call = i
        /\ \A k \in 1..(j - 1) : sent[k].call # i

\* The turn ended because send_message returned a reply (and not because it raised).
EndedByReply ==
    /\ pc = "done"
    /\ sent # <<>>
    /\ Last(sent).status = "replied"

\* C1: for a non-empty prompt, whatever the LLM endpoint and the tool
\* executor do (reply, return, raise), generate_response_with_gemini returns a
\* string - the text of the model, the fallback or the apology - and never
\* raises, so /chat answers 200 {response: <string>} and never 500.
C1_AlwaysText ==
    /\ ret.tag # "raise"
    /\ http.status # 500
    /\ (pc = "done" /\ request.prompt # "") =>
           /\ ret.tag = "return"
           /\ ret.text \in AnswerTexts \cup {Fallback, Apology}
           /\ http = [status |-> 200, body |-> ret.text]

\* A turn in which a tool raised and the LLM endpoint failed, answered 200.
C1_Witness ==
    /\ pc = "done"
    /\ http.status = 200
    /\ ret.text = Apology
    /\ \E i \in 1..Len(calls) : calls[i].status = "raised"
    /\ \E j \in 1..Len(sent) : sent[j].status = "failed"

\* C2: a /chat request with an empty prompt is answered 400 before the turn
\* starts: nothing is ever sent to the LLM endpoint and no tool is dispatched.
C2_EmptyPromptRejected ==
    (pc # "idle" /\ request.prompt = "") =>
        /\ pc = "done"
        /\ http = [status |-> 400, body |-> EmptyPromptDetail]
        /\ ret = NoRet
        /\ sent = <<>>
        /\ calls = <<>>

C2_Witness ==
    /\ pc = "done"
    /\ request.prompt = ""
    /\ http.status = 400

\* A reply that is a text answer: no part asks for a tool and the first part
\* (the part the handler reads) carries non-empty text.
IsTextAnswer(message) ==
    /\ message # <<>>
    /\ message[1].text # ""
    /\ \A i \in 1..Len(message) : ~IsCallPart(message[i])

ToolRaisedStep ==
    /\ pc = "awaitTool"
    /\ Len(calls') = Len(calls)
    /\ Last(calls).status = "pending"
    /\ Last(calls').status = "raised"

\* C4: when execute_local_tool raises for the tool the model asked for, the
\* turn is not ended: the very next message handed to the model is a
\* function_response for the same tool name whose payload is the object
\* {error: "Failed to execute tool: " + the exception's message}, and the
\* handler is back waiting for the model's reply.
C4_ToolFailureAbsorbed ==
    [][ToolRaisedStep =>
          /\ pc' = "awaitModel"
          /\ ret' = NoRet
          /\ http' = NoHttp
          /\ Len(sent') = Len(sent) + 1
          /\ SubSeq(sent', 1, Len(sent)) = sent
          /\ Last(sent').kind = "function_response"
          /\ Last(sent').name = Last(calls).name
          /\ Last(sent').name = response_message[1].function_call
          /\ Last(sent').response =
                 Object("error", <<>>, "Failed to execute tool: " \o Last(calls').msg)
          /\ Last(sent').status = "pending"]_vars

C4_Witness ==
    /\ pc = "awaitModel"
    /\ calls # <<>>
    /\ Last(calls).status = "raised"
    /\ Last(calls).msg \in HttpErrors
    /\ Last(sent).response = Object("error", <<>>, "Failed to execute tool: " \o Last(calls).msg)

\* The tool requests of the last reply for which no function_response has
\* been handed to the model since that reply arrived.
Unanswered ==
    {i \in 1..Len(response_message) :
        /\ IsCallPart(response_message[i])
        /\ ~\E j \in (mark + 1)..Len(sent) :
               /\ sent[j].kind = "function_response"
               /\ sent[j].name = response_message[i].function_call}

\* C5 as stated: every tool request the model emits is answered with a
\* function_response of that name before a further reply is requested or the
\* turn returns, and two requests are never outstanding at once.
C5_EveryRequestAnswered ==
    /\ Cardinality({i \in 1..Len(calls) : calls[i].status = "pending"}) <= 1
    /\ (pc = "done" \/ (pc = "awaitModel" /\ site # "prompt")) => Unanswered = {}

\* C5, amended: the tool request in the FIRST part of a reply is dispatched
\* and answered with a function_response carrying its name before any further
\* reply is requested; dispatches and their answers strictly follow one
\* another, and at most one dispatch is pending at any time.  (Requests in
\* later parts of a reply are never dispatched nor answered.)
C5_FirstRequestAnswered ==
    /\ \A i \in 1..Len(calls) :
           /\ calls[i].status = "pending" => (i = Len(calls) /\ pc = "awaitTool")
           /\ calls[i].status # "pending" =>
                  \E j \in 1..Len(sent) :
                      /\ sent[j].kind = "function_response"
                      /\ sent[j].call = i
                      /\ sent[j].name = calls[i].name
    /\ \A j \in 1..Len(sent) :
           /\ (sent[j].kind = "prompt") = (j = 1)
           /\ sent[j].kind = "function_response" =>
                  /\ sent[j].call \in 1..Len(calls)
                  /\ sent[j].name = calls[sent[j].call].name
           /\ \A k \in 1..(j - 1) : sent[k].call <= sent[j].call
           /\ sent[j].status = "pending" => (j = Len(sent) /\ pc = "awaitModel")
    /\ pc = "awaitTool" =>
           /\ calls # <<>>
           /\ Last(calls).status = "pending"
           /\ Last(calls).name = response_message[1].function_call
           /\ mark = Len(sent)
           /\ sent[mark].status = "replied"
           /\ sent[mark].call = Len(calls) - 1
    /\ (pc = "awaitModel" /\ site # "prompt") =>
           /\ Last(sent).call = Len(calls)
           /\ Last(sent).name = response_message[1].function_call

\* Two tool round-trips, the second for a reply that carried two requests.
C5_Witness ==
    /\ pc = "awaitModel"
    /\ Len(calls) = 2
    /\ Last(sent).call = 2
    /\ Len(response_message) = 2
    /\ IsCallPart(response_message[2])
    /\ response_message[2].function_call # response_message[1].function_call

\* C6: when execute_local_tool returns a list, the function_response handed
\* to the model for that dispatch has the payload {results: <that list>},
\* same elements in the same order; a bare list is never sent.
C6_ListWrapped ==
    /\ \A i \in 1..Len(calls) :
           (calls[i].status = "returned" /\ calls[i].value.t = "array") =>
               /\ sent[FirstAnswer(i)].kind = "function_response"
               /\ sent[FirstAnswer(i)].name = calls[i].name
               /\ sent[FirstAnswer(i)].response =
                      Object("results", calls[i].value.items, "")
    /\ \A j \in 1..Len(sent) :
           sent[j].kind = "function_response" => sent[j].response.t # "array"

C6_Witness ==
    /\ calls # <<>>
    /\ Last(calls).status = "returned"
    /\ Last(calls).value = Array(<<"Belt", "Hat">>)
    /\ sent[FirstAnswer(Len(calls))].response = Object("results", <<"Belt", "Hat">>, "")

NoCallNoText(message) ==
    \/ message = <<>>
    \/ (message[1].function_call = "" /\ message[1].text = "")

\* C8: when the reply that ends the turn has no tool call and no text (no
\* parts, or a first part with empty text), the turn returns exactly the
\* fixed fallback string.
C8_FallbackReturned ==
    (EndedByReply /\ NoCallNoText(response_message)) =>
        /\ ret = Return("I have processed your request. Is there anything else I can help with?")
        /\ http = [status |-> 200,
                   body |-> "I have processed your request. Is there anything else I can help with?"]

C8_Witness ==
    /\ EndedByReply
    /\ calls # <<>>
    /\ response_message # <<>>
    /\ response_message[1] = TextPart("")
    /\ ret.text = Fallback

\* C9 as stated: every started turn eventually completes.
C9_EveryTurnCompletes == (pc = "awaitModel") ~> (pc = "done")

\* C9, amended: a started turn runs to completion provided the model
\* eventually stops putting a tool request in the first part of its replies;
\* nothing in the code ends a turn whose model asks for a tool every time.
C9_CompletesOnceModelStopsAsking ==
    (<>[](response_message = <<>> \/ response_message[1].function_call = ""))
        => <>(pc = "done")

C9_Witness ==
    /\ ~observe
    /\ pc = "done"
    /\ tool_name # ""
    /\ ret.tag = "return"
    /\ ret.text \in AnswerTexts

\* C10 as stated: whenever a call of the LLM endpoint fails, on the prompt or
\* on a tool response, the turn ends with the apology and nothing more is
\* sent to the model.
C10_FailureEndsTurn ==
    \A j \in 1..Len(sent) :
        sent[j].status = "failed" =>
            /\ j = Len(sent)
            /\ pc = "done"
            /\ ret = Return("I'm sorry, but I encountered an error while trying to process your request. Please try again later.")

\* C11 as stated: when the reply that ends the tool loop has non-empty text
\* in any of its parts, the turn returns that text and not the fallback.
C11_AnyPartTextReturned ==
    (EndedByReply /\ \E i \in 1..Len(response_message) : response_message[i].text # "") =>
        /\ ret.tag = "return"
        /\ ret.text # "I have processed your request. Is there anything else I can help with?"
        /\ \E i \in 1..Len(response_message) : ret.text = response_message[i].text

\* C14 as stated: an {error: ...} payload is sent for a dispatch only if
\* execute_local_tool raised for it; when it returned a result, the model is
\* sent that result (a list wrapped as {results: ...}) and no error payload.
C14_ErrorOnlyWhenToolRaised ==
    /\ \A j \in 1..Len(sent) :
           (sent[j].kind = "function_response" /\ sent[j].response.key = "error") =>
               calls[sent[j].call].status = "raised"
    /\ \A i \in 1..Len(calls) :
           calls[i].status = "returned" =>
               \A j \in 1..Len(sent) :
                   sent[j].call = i =>
                       sent[j].response \in
                           {calls[i].value, Object("results", calls[i].value.items, "")}

\* Turn t waits for the LLM endpoint or for a tool dispatch.
Blocked(t) == turns[t].pc \in {"awaitModel", "awaitTool"}

\* C12 as stated: when two turns are served by one process, in every state
\* where one turn is blocked on the LLM endpoint or on a tool dispatch, the
\* other turn, itself in progress, can take its next step.
C12_OtherTurnNotStalled ==
    \A t \in Turns :
        (Blocked(t) /\ Blocked(Other(t))) => ENABLED TurnStep(Other(t))

IsPrefix(a, b) ==
    /\ Len(a) <= Len(b)
    /\ \A i \in 1..Len(a) : a[i] = b[i]

\* C13: two /chat requests with the same prompt, served by one process one
\* after the other or interleaved, against an LLM endpoint and a tool
\* executor that answer identically, send the same messages to the model,
\* dispatch the same tools and return the same text, whatever their history
\* fields hold: as far as the answers received go, the logs of one turn are a
\* prefix of the other's, and after the same answers the turns are at the same
\* point with the same result.
C13_TurnsIndependent ==
    \A t \in Turns :
        LET a == turns[t]
            b == turns[Other(t)]
        IN  (/\ a.pc # "idle"
             /\ b.pc # "idle"
             /\ a.request.prompt = b.request.prompt
             /\ IsPrefix(a.answers, b.answers)) =>
                /\ IsPrefix(a.sent, b.sent)
                /\ IsPrefix(a.calls, b.calls)
                /\ Len(a.answers) = Len(b.answers) =>
                       /\ a.pc = b.pc
                       /\ a.sent = b.sent
                       /\ a.calls = b.calls
                       /\ a.ret = b.ret
                       /\ a.http = b.http

\* Both turns ended with text after a tool round-trip, for the same prompt and
\* different history fields.
C13_Witness ==
    /\ \A t \in Turns : turns[t].pc = "done" /\ turns[t].ret.tag = "return"
    /\ turns[1].request.prompt = turns[2].request.prompt
    /\ turns[1].request.history # turns[2].request.history
    /\ turns[1].calls # <<>>
    /\ Len(turns[1].sent) >= 2
    /\ turns[1].ret = turns[2].ret

====
